---- MODULE Spec2Model ----
(***************************************************************************)
(* Model of app.py: the tool-calling conversation loop of Me.chat, the     *)
(* tool dispatch of Me.handle_tool_call, the two tool functions and push.  *)
(*                                                                         *)
(* A text (a Python str built by an f-string, a message content, a reply)  *)
(* is a sequence of string fragments; concatenation is \o.  A Python dict  *)
(* is a record; an object that is not a dict carries the field "cls".      *)
(***************************************************************************)
EXTENDS Integers, Sequences, FiniteSets, TLC

\* Bounds on the environment (the language model), not on the loop of Me.chat.
MaxRounds == 2
MaxToolCalls == 2

Turns == {1, 2}

VARIABLES
    me,            \* the Me instance: name, summary, linkedin
    pc,            \* per turn: position of Me.chat
    chat_message,  \* per turn: argument message of Me.chat
    chat_history,  \* per turn: argument history of Me.chat (the caller's list)
    messages,      \* per turn: local list messages of Me.chat
    choice,        \* per turn: response.choices[0] of the last model response
    tc_index,      \* per turn: position of the for loop of handle_tool_call
    results,       \* per turn: local list results of handle_tool_call
    returned,      \* per turn: value returned by Me.chat
    raised,        \* per turn: exception that left Me.chat
    sent,          \* per turn: message lists passed to chat.completions.create
    issued,        \* per turn: number of tool calls the model has requested
    model_failed,  \* per turn: whether a create() call has raised
    dispatched,    \* per turn: tool_call ids whose loop iteration has begun
    notified       \* requests accepted by the notification endpoint, in order

vars == <<me, pc, chat_message, chat_history, messages, choice, tc_index,
          results, returned, raised, sent, issued, model_failed, dispatched,
          notified>>

----------------------------------------------------------------------------
\* Texts and Python values

NoText == <<>>
NoException == "none"

PyNone == [t |-> "None"]
PyDict(items) == [t |-> "dict", items |-> items]
PyList == [t |-> "list"]
PyObject(cls) == [t |-> "object", cls |-> cls]
EmptyItems == [k \in {} |-> ""]

IsDict(msg) == "cls" \notin DOMAIN msg

----------------------------------------------------------------------------
\* json.loads / json.dumps on the payloads of the model

ValidEmailArgs == "{\"email\": \"a@b.com\"}"
ExtraKeyArgs == "{\"email\": \"a@b.com\", \"phone\": \"1\"}"
QuestionArgs == "{\"question\": \"q\"}"
MessageArgs == "{\"message\": \"m\"}"
EmptyObjectArgs == "{}"
ArrayArgs == "[1]"
MalformedArgs == "{\"email\": "

json_loads(s) ==
    CASE s = ValidEmailArgs ->
           [ok |-> TRUE, value |-> PyDict([email |-> "a@b.com"])]
      [] s = ExtraKeyArgs ->
           [ok |-> TRUE, value |-> PyDict([email |-> "a@b.com", phone |-> "1"])]
      [] s = QuestionArgs ->
           [ok |-> TRUE, value |-> PyDict([question |-> "q"])]
      [] s = MessageArgs ->
           [ok |-> TRUE, value |-> PyDict([message |-> "m"])]
      [] s = EmptyObjectArgs ->
           [ok |-> TRUE, value |-> PyDict(EmptyItems)]
      [] s = ArrayArgs ->
           [ok |-> TRUE, value |-> PyList]
      [] OTHER ->
           [ok |-> FALSE, value |-> PyNone]

RecordedOk == PyDict([recorded |-> "ok"])

json_dumps(v) ==
    CASE v.t = "None" -> [ok |-> TRUE, text |-> <<"null">>]
      [] v.t = "dict" /\ DOMAIN v.items = {} -> [ok |-> TRUE, text |-> <<"{}">>]
      [] v.t = "dict" /\ v.items = [recorded |-> "ok"] ->
           [ok |-> TRUE, text |-> <<"{\"recorded\": \"ok\"}">>]
      [] OTHER -> [ok |-> FALSE, text |-> NoText]

----------------------------------------------------------------------------
\* Module-level names: what globals().get(tool_name) finds

DEBUG == FALSE

GlobalsGet(tool_name) ==
    CASE tool_name \in {"record_user_details", "record_unknown_question", "push",
                        "load_dotenv"} ->
           [kind |-> "function", name |-> tool_name]
      [] tool_name \in {"Me", "OpenAI", "PdfReader"} ->
           [kind |-> "class", name |-> tool_name]
      [] tool_name \in {"os", "json", "logging", "requests", "gr"} ->
           [kind |-> "module", name |-> tool_name]
      [] tool_name \in {"tools", "record_user_details_json",
                        "record_unknown_question_json"} ->
           [kind |-> "data", name |-> tool_name]
      [] tool_name = "DEBUG" ->
           [kind |-> IF DEBUG THEN "true" ELSE "false", name |-> tool_name]
      [] OTHER ->
           [kind |-> "none", name |-> tool_name]

Truthy(tool) == tool.kind \notin {"none", "false"}

\* The tool catalog passed to the model: the names of the declared tools.
tools == <<"record_user_details", "record_unknown_question">>

----------------------------------------------------------------------------
\* The tool functions: the call tool(**arguments)

Param(items, key, default) == IF key \in DOMAIN items THEN items[key] ELSE default

\* Binding **arguments to a signature: TypeError unless arguments is a mapping
\* whose keys are parameters and include every parameter without a default.
Binds(arguments, required, optional) ==
    /\ arguments.t = "dict"
    /\ required \subseteq DOMAIN arguments.items
    /\ DOMAIN arguments.items \subseteq (required \cup optional)

TypeErrorOutcome == [raises |-> "TypeError", push |-> <<>>, value |-> PyNone]

record_user_details(arguments) ==
    IF ~Binds(arguments, {"email"}, {"name", "notes"}) THEN TypeErrorOutcome
    ELSE [raises |-> NoException,
          push |-> << <<"Recording ", Param(arguments.items, "name", "Name not provided"),
                        " with email ", arguments.items["email"],
                        " and notes ", Param(arguments.items, "notes", "not provided")>> >>,
          value |-> RecordedOk]

record_unknown_question(arguments) ==
    IF ~Binds(arguments, {"question"}, {}) THEN TypeErrorOutcome
    ELSE [raises |-> NoException,
          push |-> << <<"Recording unknown question: ", arguments.items["question"]>> >>,
          value |-> RecordedOk]

\* push called directly: sends its message and returns None.
push_as_tool(arguments) ==
    IF ~Binds(arguments, {"message"}, {}) THEN TypeErrorOutcome
    ELSE [raises |-> NoException,
          push |-> << <<arguments.items["message"]>> >>,
          value |-> PyNone]

\* tool(**arguments) for a truthy global.
CallTool(tool, arguments) ==
    CASE tool.kind = "function" /\ tool.name = "record_user_details" ->
           record_user_details(arguments)
      [] tool.kind = "function" /\ tool.name = "record_unknown_question" ->
           record_unknown_question(arguments)
      [] tool.kind = "function" /\ tool.name = "push" ->
           push_as_tool(arguments)
      [] tool.kind = "class" /\ Binds(arguments, {}, {}) ->
           [raises |-> NoException, push |-> <<>>, value |-> PyObject(tool.name)]
      [] OTHER -> TypeErrorOutcome

----------------------------------------------------------------------------
\* Inputs

\* Tool calls the model may request: declared tools with good and bad payloads,
\* an undeclared name, and names of other module-level objects.
ToolCallInputs ==
    ({"record_user_details"} \X
        {ValidEmailArgs, ExtraKeyArgs, EmptyObjectArgs, ArrayArgs, MalformedArgs})
    \cup ({"record_unknown_question"} \X {QuestionArgs, EmptyObjectArgs})
    \cup ({"delete_everything"} \X {EmptyObjectArgs, MalformedArgs})
    \cup ({"tools", "push"} \X {MessageArgs})
    \cup ({"Me"} \X {EmptyObjectArgs})

FinishReasons == {"stop", "length", "tool_calls"}

UserMessages == { <<"What's your email?">> }

HistUser == [role |-> "user", content |-> <<"Hello">>]
HistAssistant ==
    [role |-> "assistant", content |-> <<"Hi, I am Moamen">>, metadata |-> "title"]
HistObject == [cls |-> "ChatMessage", role |-> "user", content |-> <<"Hi">>]
HistNoContent == [role |-> "user"]

HistoryInputs ==
    { <<>>,
      <<HistUser, HistAssistant, HistObject>>,
      <<HistNoContent>> }

\* The text of the k-th response of a turn.
Reply(k) == <<"reply ", ToString(k)>>

----------------------------------------------------------------------------
\* Me

\* Mutant of system_prompt: the text depends on what happened before the call.
system_prompt_stateful ==
    <<"You are acting as ", me.name, ". ... record_user_details tool.\n\n",
      "## Summary:\n", me.summary, ToString(Len(notified)),
      "\n\n## LinkedIn Profile:\n", me.linkedin,
      "\n\nWith this context, please chat with the user, always staying in character as ",
      me.name, ".">>

system_prompt ==
    <<"You are acting as ", me.name, ". ... record_user_details tool.\n\n",
      "## Summary:\n", me.summary, "\n\n## LinkedIn Profile:\n", me.linkedin,
      "\n\nWith this context, please chat with the user, always staying in character as ",
      me.name, ".">>

\* Mutant of CleanHistory: messages that are not dicts are dropped.
CleanHistoryDictsOnly(history) ==
    LET dicts == SelectSeq(history, IsDict)
    IN [i \in 1..Len(dicts) |-> [role |-> dicts[i].role, content |-> dicts[i].content]]

\* Lines 127-133: the cleaned copy of the history.
CleanHistory(history) ==
    [i \in 1..Len(history) |->
        IF IsDict(history[i])
        THEN [role |-> history[i].role, content |-> history[i].content]
        ELSE history[i]]

\* msg["role"] / msg["content"] on a dict without that key.
HistoryKeyError(history) ==
    \E i \in 1..Len(history) :
        IsDict(history[i]) /\ ~({"role", "content"} \subseteq DOMAIN history[i])

InitialMessages(message, history) ==
    <<[role |-> "system", content |-> system_prompt]>>
    \o CleanHistory(history)
    \o <<[role |-> "user", content |-> message]>>

Raise(t, exc) ==
    /\ pc' = [pc EXCEPT ![t] = "raised"]
    /\ raised' = [raised EXCEPT ![t] = exc]

\* Mutant of ChatStartFrom: the message list is kept on the Me instance, one
\* list for every call.
ChatStartSharedFrom(t, user_messages, histories) ==
    /\ pc[t] = "idle"
    /\ \E message \in user_messages, history \in histories :
        /\ chat_message' = [chat_message EXCEPT ![t] = message]
        /\ chat_history' = [chat_history EXCEPT ![t] = history]
        /\ pc' = [pc EXCEPT ![t] = "call_model"]
        /\ messages' = [u \in Turns |-> InitialMessages(message, history)]
    /\ UNCHANGED <<me, raised, choice, tc_index, results, returned, sent, issued,
                   model_failed, dispatched, notified>>

\* Mutant of ChatStartFrom: the history is cleaned in place, in the list of the
\* caller.
ChatStartInPlaceFrom(t, user_messages, histories) ==
    /\ pc[t] = "idle"
    /\ \E message \in user_messages, history \in histories :
        /\ chat_message' = [chat_message EXCEPT ![t] = message]
        /\ IF HistoryKeyError(history)
           THEN /\ Raise(t, "KeyError")
                /\ chat_history' = [chat_history EXCEPT ![t] = history]
                /\ UNCHANGED messages
           ELSE /\ pc' = [pc EXCEPT ![t] = "call_model"]
                /\ chat_history' = [chat_history EXCEPT ![t] = CleanHistory(history)]
                /\ messages' = [messages EXCEPT ![t] = InitialMessages(message, history)]
                /\ UNCHANGED raised
    /\ UNCHANGED <<me, choice, tc_index, results, returned, sent, issued,
                   model_failed, dispatched, notified>>

\* Entry of Me.chat up to the while loop, on a message and a history of the
\* given sets.
ChatStartFrom(t, user_messages, histories) ==
    /\ pc[t] = "idle"
    /\ \E message \in user_messages, history \in histories :
        /\ chat_message' = [chat_message EXCEPT ![t] = message]
        /\ chat_history' = [chat_history EXCEPT ![t] = history]
        /\ IF HistoryKeyError(history)
           THEN /\ Raise(t, "KeyError")
                /\ UNCHANGED messages
           ELSE /\ pc' = [pc EXCEPT ![t] = "call_model"]
                /\ messages' = [messages EXCEPT ![t] = InitialMessages(message, history)]
                /\ UNCHANGED raised
    /\ UNCHANGED <<me, choice, tc_index, results, returned, sent, issued,
                   model_failed, dispatched, notified>>

ChatStart(t) == ChatStartFrom(t, UserMessages, HistoryInputs)

\* Mutant of WantsTools: only finish reason stop ends the loop.
WantsToolsUnlessStop(t) == choice'[t].finish_reason # "stop"

\* Mutant of WantsTools: the loop gives up after one tool-call round.
WantsToolsCapped(t) ==
    choice'[t].finish_reason = "tool_calls" /\ Len(sent[t]) < 1

\* The test of line 150, on the response just received.
WantsTools(t) == choice'[t].finish_reason = "tool_calls"

\* Mutant of ReturnValue: the text of the first response of the turn.
ReturnFirstReply(t) ==
    IF Len(sent[t]) >= 1 /\ Len(messages[t]) > Len(sent[t][1])
    THEN messages[t][Len(sent[t][1]) + 1].content
    ELSE choice'[t].message.content

\* Line 158.
ReturnValue(t) == choice'[t].message.content

\* One iteration of the while loop whose create() call returns:
\* lines 141-148, then the branch of line 150; line 156 and line 158 when done.
\* The tool calls of the response are drawn from tool_calls.
ModelReturnsFrom(t, tool_calls) ==
    /\ pc[t] = "call_model"
    /\ \E finish \in FinishReasons, n \in 0..(MaxToolCalls - issued[t]) :
        /\ finish = "tool_calls" => Len(sent[t]) < MaxRounds
        /\ finish # "tool_calls" => n = 0
        /\ \E calls \in [1..n -> tool_calls] :
            /\ choice' = [choice EXCEPT ![t] =
                  [finish_reason |-> finish,
                   message |->
                     [cls |-> "ChatCompletionMessage",
                      role |-> "assistant",
                      content |-> Reply(Len(sent[t]) + 1),
                      tool_calls |->
                        [i \in 1..n |->
                           [id |-> issued[t] + i,
                            function |-> [name |-> calls[i][1],
                                          arguments |-> calls[i][2]]]]]]]
            /\ issued' = [issued EXCEPT ![t] = @ + n]
    /\ sent' = [sent EXCEPT ![t] = Append(@, messages[t])]
    /\ IF WantsTools(t)
       THEN /\ pc' = [pc EXCEPT ![t] = "handle_tool_call"]
            /\ tc_index' = [tc_index EXCEPT ![t] = 1]
            /\ results' = [results EXCEPT ![t] = <<>>]
            /\ UNCHANGED returned
       ELSE /\ pc' = [pc EXCEPT ![t] = "done"]
            /\ returned' = [returned EXCEPT ![t] = ReturnValue(t)]
            /\ UNCHANGED <<tc_index, results>>
    /\ UNCHANGED <<me, chat_message, chat_history, messages, raised,
                   model_failed, dispatched, notified>>

ModelReturns(t) == ModelReturnsFrom(t, ToolCallInputs)

\* Mutant of ModelRaises: the failure is swallowed and the call is made again.
ModelRaisesRetried(t) ==
    /\ pc[t] = "call_model"
    /\ sent' = [sent EXCEPT ![t] = Append(@, messages[t])]
    /\ model_failed' = [model_failed EXCEPT ![t] = TRUE]
    /\ UNCHANGED <<me, pc, raised, chat_message, chat_history, messages, choice,
                   tc_index, results, returned, issued, dispatched, notified>>

\* The create() call of line 141 raises: nothing in Me.chat catches it.
ModelRaises(t) ==
    /\ pc[t] = "call_model"
    /\ sent' = [sent EXCEPT ![t] = Append(@, messages[t])]
    /\ model_failed' = [model_failed EXCEPT ![t] = TRUE]
    /\ Raise(t, "APIError")
    /\ UNCHANGED <<me, chat_message, chat_history, messages, choice, tc_index,
                   results, returned, issued, dispatched, notified>>

\* The tool-role message of lines 118-122.
ToolMessage(tool_call, text) ==
    [role |-> "tool", content |-> text, tool_call_id |-> tool_call.id]

\* One iteration of the for loop of handle_tool_call (lines 111-122).
\* post_ok: whether requests.post of push returns (TRUE) or raises (FALSE).
HandleToolCall(t) ==
    /\ pc[t] = "handle_tool_call"
    /\ tc_index[t] <= Len(choice[t].message.tool_calls)
    /\ LET tool_call == choice[t].message.tool_calls[tc_index[t]]
           decoded == json_loads(tool_call.function.arguments)
           tool == GlobalsGet(tool_call.function.name)
           outcome == IF Truthy(tool)
                      THEN CallTool(tool, decoded.value)
                      ELSE [raises |-> NoException, push |-> <<>>,
                            value |-> PyDict(EmptyItems)]
           dumped == json_dumps(outcome.value)
       IN /\ dispatched' = [dispatched EXCEPT ![t] = Append(@, tool_call.id)]
          /\ IF ~decoded.ok
             THEN /\ Raise(t, "JSONDecodeError")
                  /\ UNCHANGED <<results, tc_index, notified>>
             ELSE IF outcome.raises # NoException
             THEN /\ Raise(t, outcome.raises)
                  /\ UNCHANGED <<results, tc_index, notified>>
             ELSE \E post_ok \in (IF outcome.push = <<>> THEN {TRUE} ELSE BOOLEAN) :
                    IF ~post_ok
                    THEN /\ Raise(t, "ConnectionError")
                         /\ UNCHANGED <<results, tc_index, notified>>
                    ELSE /\ notified' = notified \o
                              [i \in 1..Len(outcome.push) |->
                                  [turn |-> t, id |-> tool_call.id,
                                   message |-> outcome.push[i]]]
                         /\ IF ~dumped.ok
                            THEN /\ Raise(t, "TypeError")
                                 /\ UNCHANGED <<results, tc_index>>
                            ELSE /\ results' = [results EXCEPT ![t] =
                                        Append(@, ToolMessage(tool_call, dumped.text))]
                                 /\ tc_index' = [tc_index EXCEPT ![t] = @ + 1]
                                 /\ UNCHANGED <<pc, raised>>
    /\ UNCHANGED <<me, chat_message, chat_history, messages, choice, returned,
                   sent, issued, model_failed>>

\* Mutant of RoundMessages: the tool results are appended before the assistant
\* message.
RoundMessagesResultsFirst(t) == results[t] \o <<choice[t].message>>

\* Lines 153-154: what the loop appends after handle_tool_call returns.
RoundMessages(t) == <<choice[t].message>> \o results[t]

\* Mutant of HandleReturn: the for loop may be left before its last iteration.
HandleReturnEarly(t) ==
    /\ pc[t] = "handle_tool_call"
    /\ messages' = [messages EXCEPT ![t] = @ \o RoundMessages(t)]
    /\ pc' = [pc EXCEPT ![t] = "call_model"]
    /\ UNCHANGED <<me, chat_message, chat_history, choice, tc_index, results,
                   returned, raised, sent, issued, model_failed, dispatched,
                   notified>>

\* handle_tool_call returns (line 123); lines 152-154 of Me.chat.
HandleReturn(t) ==
    /\ pc[t] = "handle_tool_call"
    /\ tc_index[t] > Len(choice[t].message.tool_calls)
    /\ messages' = [messages EXCEPT ![t] = @ \o RoundMessages(t)]
    /\ pc' = [pc EXCEPT ![t] = "call_model"]
    /\ UNCHANGED <<me, chat_message, chat_history, choice, tc_index, results,
                   returned, raised, sent, issued, model_failed, dispatched,
                   notified>>

----------------------------------------------------------------------------
\* Specifications

NoChoice ==
    [finish_reason |-> "none",
     message |-> [cls |-> "ChatCompletionMessage", role |-> "assistant",
                  content |-> NoText, tool_calls |-> <<>>]]

Init ==
    /\ me = [name |-> "Moamen", summary |-> "summary.txt", linkedin |-> "Profile.pdf"]
    /\ pc = [t \in Turns |-> "idle"]
    /\ chat_message = [t \in Turns |-> NoText]
    /\ chat_history = [t \in Turns |-> <<>>]
    /\ messages = [t \in Turns |-> <<>>]
    /\ choice = [t \in Turns |-> NoChoice]
    /\ tc_index = [t \in Turns |-> 1]
    /\ results = [t \in Turns |-> <<>>]
    /\ returned = [t \in Turns |-> NoText]
    /\ raised = [t \in Turns |-> NoException]
    /\ sent = [t \in Turns |-> <<>>]
    /\ issued = [t \in Turns |-> 0]
    /\ model_failed = [t \in Turns |-> FALSE]
    /\ dispatched = [t \in Turns |-> <<>>]
    /\ notified = <<>>

Step(t) ==
    \/ ChatStart(t)
    \/ ModelReturns(t)
    \/ ModelRaises(t)
    \/ HandleToolCall(t)
    \/ HandleReturn(t)

\* One call of Me.chat.
ActiveTurns == {1}

Next == \E t \in ActiveTurns : Step(t)

Spec == Init /\ [][Next]_vars

\* Two calls of Me.chat on the same Me instance, their steps interleaved; each
\* has its own message and history, and the model requests few kinds of calls.
ConcUserMessage(t) == <<"question ", ToString(t)>>

ConcHistory(t) == IF t = 1 THEN <<HistUser>> ELSE <<HistAssistant, HistObject>>

ConcToolCalls ==
    { <<"record_user_details", ValidEmailArgs>>,
      <<"delete_everything", MalformedArgs>> }

ConcStep(t) ==
    \/ ChatStartFrom(t, {ConcUserMessage(t)}, {ConcHistory(t)})
    \/ ModelReturnsFrom(t, ConcToolCalls)
    \/ ModelRaises(t)
    \/ HandleToolCall(t)
    \/ HandleReturn(t)

ConcNext == \E t \in Turns : ConcStep(t)

ConcSpec == Init /\ [][ConcNext]_vars

\* The call runs to its end: every step of Me.chat is eventually taken, and the
\* model eventually answers without tool calls (MaxRounds, MaxToolCalls).
FairSpec == Spec /\ WF_vars(Next)

----------------------------------------------------------------------------
\* Vocabulary of the properties

Terminated(t) == pc[t] \in {"done", "raised"}

\* The tool call whose loop iteration was the last to begin.
CurrentToolCall(t) == choice[t].message.tool_calls[tc_index[t]]

\* The turn was left by an exception raised inside handle_tool_call.
RaisedInToolCall(t) ==
    /\ pc[t] = "raised"
    /\ ~model_failed[t]
    /\ choice[t].finish_reason = "tool_calls"

\* msgs ends with the assistant message am followed by one tool-role message
\* per tool call of am, carrying the ids of am's tool calls in order.
EndsWithRound(msgs, am) ==
    LET n == Len(am.tool_calls)
        base == Len(msgs) - n
    IN /\ base >= 1
       /\ msgs[base] = am
       /\ \A i \in 1..n :
            /\ msgs[base + i].role = "tool"
            /\ msgs[base + i].tool_call_id = am.tool_calls[i].id

\* A tool-role content that tells the model its call failed: neither the empty
\* object, nor null, nor the acknowledgment of a recorded call.
EncodesError(text) ==
    text \notin {json_dumps(PyDict(EmptyItems)).text, json_dumps(PyNone).text,
                 json_dumps(RecordedOk).text}

\* The notifications sent by the tool calls of turn t, in order.
NotifiedBy(t) ==
    LET OfTurn(n) == n.turn = t
    IN SelectSeq(notified, OfTurn)

Declared(tool_name) == \E i \in 1..Len(tools) : tools[i] = tool_name

\* Responses of the model that were appended to messages: the tool-call rounds.
RoundIndexes(t) ==
    {i \in 1..Len(messages[t]) :
        /\ ~IsDict(messages[t][i])
        /\ messages[t][i].cls = "ChatCompletionMessage"}

----------------------------------------------------------------------------
\* C1: every round whose response has finish reason tool_calls and N tool
\* calls ends with the assistant message and exactly N tool-role messages,
\* carrying the ids of the requested calls in order, appended to messages.
\* Fails: an exception in handle_tool_call leaves the round with nothing appended.
C1_EveryToolRoundAppended ==
    \A t \in Turns :
        (choice[t].finish_reason = "tool_calls" /\ pc[t] # "handle_tool_call")
            => EndsWithRound(messages[t], choice[t].message)

\* C2: a malformed arguments payload never aborts the turn.
\* Fails: json.loads raises and nothing catches it.
C2_MalformedArgumentsNeverAbort ==
    \A t \in Turns : raised[t] # "JSONDecodeError"

\* C3: a tool call with an unregistered name never raises and is answered by a
\* tool-role message that encodes an unknown-tool error.
\* Fails: the name of a module-level object that is not a function is called and
\* raises; an unknown name is answered by the empty object.
C3_UnknownToolAnsweredWithError ==
    \A t \in Turns :
        /\ (RaisedInToolCall(t) /\ json_loads(CurrentToolCall(t).function.arguments).ok)
              => Declared(CurrentToolCall(t).function.name)
        /\ pc[t] = "handle_tool_call" =>
             \A i \in 1..Len(results[t]) :
              ~Declared(choice[t].message.tool_calls[i].function.name)
                  => /\ results[t][i].tool_call_id = choice[t].message.tool_calls[i].id
                     /\ EncodesError(results[t][i].content)

\* C4: a failure of the notification delivery never aborts the tool call.
\* Fails: requests.post raising leaves push, the tool and Me.chat.
C4_DeliveryFailureAbsorbed ==
    \A t \in Turns : raised[t] # "ConnectionError"

\* C5: a declared tool called with a validly encoded payload never raises
\* (delivery failures, the subject of C4, set aside).
\* Fails: a payload that is no object, lacks email or carries another key
\* raises TypeError at tool(**arguments).
C5_DeclaredToolNeverRaises ==
    \A t \in Turns :
        (/\ RaisedInToolCall(t)
         /\ Declared(CurrentToolCall(t).function.name)
         /\ json_loads(CurrentToolCall(t).function.arguments).ok)
            => raised[t] = "ConnectionError"

\* C6: a failed model invocation ends the turn at that invocation: the turn is
\* left by the exception, returns no text, and makes no further model
\* invocation or tool dispatch.
C6_ModelFailureEndsTurn ==
    [][\A t \in Turns :
          /\ model_failed'[t] =>
                /\ pc'[t] = "raised"
                /\ raised'[t] = "APIError"
                /\ returned'[t] = NoText
          /\ model_failed[t] =>
                /\ sent'[t] = sent[t]
                /\ dispatched'[t] = dispatched[t]
                /\ NotifiedBy(t)' = NotifiedBy(t)]_vars

\* Reached: the second invocation of a turn fails, after a round of tool calls.
C6_Witness ==
    \E t \in Turns :
        /\ model_failed[t]
        /\ Len(sent[t]) = 2
        /\ Len(dispatched[t]) >= 1

\* C7: when the first response of a turn has a finish reason other than
\* tool_calls, Me.chat returns its content after that one invocation, with no
\* tool dispatch, no notification and nothing appended to messages.
C7_FirstResponseFinal ==
    \A t \in Turns :
        (Len(sent[t]) = 1 /\ choice[t].finish_reason \in {"stop", "length"})
            => /\ pc[t] = "done"
               /\ returned[t] = choice[t].message.content
               /\ dispatched[t] = <<>>
               /\ NotifiedBy(t) = <<>>
               /\ messages[t] = sent[t][1]
               /\ Len(messages[t]) = Len(chat_history[t]) + 2

\* Reached: a first response with finish reason length, on a history of three.
C7_Witness ==
    \E t \in Turns :
        /\ pc[t] = "done"
        /\ Len(sent[t]) = 1
        /\ choice[t].finish_reason = "length"
        /\ Len(chat_history[t]) = 3

\* C8: a turn that returns after R tool-call rounds has made R+1 model
\* invocations and returns the content of the last response, whose finish
\* reason is not tool_calls, and not the content of a tool-calls response.
C8_ReturnsLastResponse ==
    \A t \in Turns :
        pc[t] = "done"
            => /\ Len(sent[t]) = Cardinality(RoundIndexes(t)) + 1
               /\ choice[t].finish_reason # "tool_calls"
               /\ returned[t] = choice[t].message.content
               /\ returned[t] = Reply(Len(sent[t]))
               /\ \A i \in RoundIndexes(t) : returned[t] # messages[t][i].content

\* Reached: one round with a single record_user_details call acknowledged by
\* {"recorded": "ok"}; the model is invoked again with the tool message appended
\* and the text of the second response is returned.
C8_Witness ==
    \E t \in Turns :
        /\ pc[t] = "done"
        /\ Len(sent[t]) = 2
        /\ Len(sent[t][2]) = Len(sent[t][1]) + 2
        /\ sent[t][2][Len(sent[t][1]) + 1].tool_calls[1].function.name
              = "record_user_details"
        /\ sent[t][2][Len(sent[t][2])]
              = [role |-> "tool", content |-> <<"{\"recorded\": \"ok\"}">>,
                 tool_call_id |-> 1]
        /\ returned[t] = Reply(2)

\* C9: a turn ends only by a response whose finish reason is not tool_calls (or
\* by an exception); a tool-calls response never ends the loop, however many
\* rounds came before; and when the model stops requesting tools the turn ends.
C9_EndsOnlyWhenModelStops ==
    /\ [][\A t \in Turns :
            /\ (pc[t] # "done" /\ pc'[t] = "done")
                  => /\ pc[t] = "call_model"
                     /\ choice'[t].finish_reason # "tool_calls"
            /\ (pc[t] = "call_model" /\ choice'[t] # choice[t]
                  /\ choice'[t].finish_reason = "tool_calls")
                  => pc'[t] = "handle_tool_call"
            /\ (pc[t] = "handle_tool_call" /\ pc'[t] # "handle_tool_call")
                  => pc'[t] \in {"call_model", "raised"}]_vars
    /\ \A t \in ActiveTurns : (pc[t] = "call_model") ~> Terminated(t)

\* Reached: the loop still calls the model after MaxRounds rounds of tool calls.
C9_Witness ==
    \E t \in Turns :
        /\ pc[t] = "call_model"
        /\ Len(sent[t]) = MaxRounds
        /\ Cardinality(RoundIndexes(t)) = MaxRounds

\* C10 as stated: the first model invocation receives the system instruction,
\* the caller's history itself and the new user message.
\* Fails: a dict of the history with further keys is not passed as it is.
C10_FirstInvocationHistoryVerbatim ==
    \A t \in Turns :
        Len(sent[t]) >= 1
            => sent[t][1] = <<[role |-> "system", content |-> system_prompt]>>
                              \o chat_history[t]
                              \o <<[role |-> "user", content |-> chat_message[t]]>>

\* C10 amended: the first model invocation receives the system instruction, then
\* one message per message of the history in the same order (a dict reduced to its
\* role and content, any other message as it is), then the new user message.
C10_FirstInvocationMessages ==
    \A t \in Turns :
        Len(sent[t]) >= 1
            => LET first == sent[t][1]
                   n == Len(chat_history[t])
               IN /\ Len(first) = n + 2
                  /\ first[1] = [role |-> "system", content |-> system_prompt]
                  /\ first[n + 2] = [role |-> "user", content |-> chat_message[t]]
                  /\ \A i \in 1..n :
                        IF IsDict(chat_history[t][i])
                        THEN /\ DOMAIN first[i + 1] = {"role", "content"}
                             /\ first[i + 1].role = chat_history[t][i].role
                             /\ first[i + 1].content = chat_history[t][i].content
                        ELSE first[i + 1] = chat_history[t][i]

\* Reached: a model invocation on a history holding a dict with a further key and
\* a message that is not a dict.
C10_Witness ==
    \E t \in Turns :
        /\ Len(sent[t]) >= 1
        /\ \E i \in 1..Len(chat_history[t]) : "metadata" \in DOMAIN chat_history[t][i]
        /\ \E i \in 1..Len(chat_history[t]) : ~IsDict(chat_history[t][i])

----------------------------------------------------------------------------
\* The ids 1..n in the order the model issued them.
IdsUpTo(n) == [i \in 1..n |-> i]

\* The tool_call_ids of the tool-role messages of msgs, in order.
ToolIds(msgs) ==
    LET IsTool(m) == m.role = "tool"
        tool_msgs == SelectSeq(msgs, IsTool)
    IN [i \in 1..Len(tool_msgs) |-> tool_msgs[i].tool_call_id]

\* C11: within a turn the tool calls are executed one at a time in the order
\* the model requested them, each after the result of the one before is there,
\* and the model is invoked only when every tool call requested so far has been
\* executed and its tool-role message appended; a step is either a model
\* invocation or one tool execution.
C11_SequentialTurn ==
    [][\A t \in Turns :
          /\ dispatched'[t] = IdsUpTo(Len(dispatched'[t]))
          /\ sent'[t] # sent[t] =>
                /\ dispatched[t] = IdsUpTo(issued[t])
                /\ ToolIds(messages[t]) = IdsUpTo(issued[t])
                /\ dispatched'[t] = dispatched[t]
          /\ dispatched'[t] # dispatched[t] =>
                /\ Len(dispatched'[t]) = Len(dispatched[t]) + 1
                /\ Len(results[t]) = tc_index[t] - 1
                /\ Len(dispatched[t])
                      = (issued[t] - Len(choice[t].message.tool_calls)) + Len(results[t])
                /\ sent'[t] = sent[t]]_vars

\* Reached: the model is about to be invoked again after a round of two tool
\* calls, both executed and answered.
C11_Witness ==
    \E t \in Turns :
        /\ pc[t] = "call_model"
        /\ Len(sent[t]) = 1
        /\ dispatched[t] = <<1, 2>>
        /\ ToolIds(messages[t]) = <<1, 2>>

----------------------------------------------------------------------------
\* What one call of Me.chat owns: its arguments, its locals, its outcome.
Local(t) ==
    <<pc[t], chat_message[t], chat_history[t], messages[t], choice[t],
      tc_index[t], results[t], returned[t], raised[t], sent[t], issued[t],
      model_failed[t], dispatched[t]>>

\* messages[t] holds the system instruction, the cleaned history and the user
\* message of turn t itself, then only assistant responses and tool-role
\* messages, one assistant response per completed round of turn t.
OwnConversation(t) ==
    LET n == Len(chat_history[t])
        msgs == messages[t]
    IN /\ Len(msgs) >= n + 2
       /\ SubSeq(msgs, 1, n + 2) = InitialMessages(chat_message[t], chat_history[t])
       /\ \A i \in (n + 3)..Len(msgs) :
             \/ i \in RoundIndexes(t)
             \/ msgs[i].role = "tool"
       /\ ToolIds(msgs) = IdsUpTo(Len(ToolIds(msgs)))
       /\ Len(ToolIds(msgs)) <= issued[t]
       /\ Cardinality(RoundIndexes(t))
             = Len(sent[t]) - (IF pc[t] = "call_model" THEN 0 ELSE 1)

\* C12: with the steps of two calls of Me.chat interleaved, a step of one call
\* changes nothing the other call owns and never writes the Me instance; the
\* conversation state of each call holds only its own system, history and user
\* messages and the messages of its own rounds; and each call returns the text
\* of its own last response, as it does alone.
C12_TurnsIsolated ==
    [][/\ me' = me
       /\ \A t \in Turns, u \in Turns :
             (t # u /\ Local(t)' # Local(t)) => Local(u)' = Local(u)
       /\ \A t \in Turns :
             /\ (pc'[t] \in {"call_model", "handle_tool_call", "done"}
                   \/ (pc'[t] = "raised" /\ raised'[t] # "KeyError"))
                   => OwnConversation(t)'
             /\ pc'[t] = "done" =>
                   /\ returned'[t] = Reply(Len(sent'[t]))
                   /\ returned'[t] = (choice[t].message.content)']_vars

\* Reached: both calls have returned after a round of tool calls each, and their
\* notifications alternate.
C12_Witness ==
    /\ pc[1] = "done" /\ pc[2] = "done"
    /\ Len(sent[1]) >= 2 /\ Len(sent[2]) >= 2
    /\ Len(notified) = 3
    /\ notified[1].turn = 1 /\ notified[2].turn = 2 /\ notified[3].turn = 1

----------------------------------------------------------------------------
\* C13: system_prompt writes nothing and renders the same text at every call:
\* name, summary and profile text stay what the constructor set, and the first
\* message of every model invocation of every turn is the system message
\* carrying the text system_prompt renders now.
C13_SameSystemInstruction ==
    /\ me = [name |-> "Moamen", summary |-> "summary.txt", linkedin |-> "Profile.pdf"]
    /\ \A t \in Turns :
          /\ \A k \in 1..Len(sent[t]) :
                sent[t][k][1] = [role |-> "system", content |-> system_prompt]
          /\ \A u \in Turns :
                (sent[t] # <<>> /\ sent[u] # <<>>)
                    => sent[t][Len(sent[t])][1] = sent[u][1][1]

\* Reached: both turns have invoked the model twice and both have sent a
\* notification, the first turn before the second.
C13_Witness ==
    /\ Len(sent[1]) >= 2 /\ Len(sent[2]) >= 2
    /\ notified # <<>>
    /\ notified[1].turn = 1
    /\ Len(NotifiedBy(2)) >= 1

----------------------------------------------------------------------------
\* The notifications sent for tool call id of turn t.
NotifiedFor(t, id) ==
    LET OfCall(n) == n.turn = t /\ n.id = id
    IN SelectSeq(notified, OfCall)

\* C14: a tool call whose name is not declared in the catalog invokes nothing:
\* it sends no notification and is answered by the result of the unknown-tool
\* path, the empty object.
\* Fails: globals().get finds every module-level object; the name push calls
\* push, which sends its message and is answered by null.
C14_OnlyDeclaredToolsInvoked ==
    \A t \in Turns :
        pc[t] = "handle_tool_call" =>
            \A i \in 1..Len(choice[t].message.tool_calls) :
                LET tool_call == choice[t].message.tool_calls[i]
                IN ~Declared(tool_call.function.name) =>
                      /\ NotifiedFor(t, tool_call.id) = <<>>
                      /\ i <= Len(results[t]) =>
                            results[t][i].content
                                = json_dumps(PyDict(EmptyItems)).text

----------------------------------------------------------------------------
\* The three-state machine of the specification (section 4.4), read off the
\* state of Me.chat: its state, its ConversationState and its final text.

AbsState(t) ==
    CASE pc[t] = "idle" -> "NOT_STARTED"
      [] pc[t] = "call_model" -> "AWAITING_MODEL"
      [] pc[t] = "handle_tool_call" -> "DISPATCHING_TOOLS"
      [] pc[t] = "done" -> "DONE"
      [] OTHER -> "FAILED"

\* While tools are dispatched the machine has already appended the assistant
\* message and the tool messages produced so far.
AbsConversation(t) ==
    IF pc[t] = "handle_tool_call"
    THEN messages[t] \o <<choice[t].message>> \o results[t]
    ELSE messages[t]

AbsFinalText(t) == returned[t]

\* The assistant message whose tool calls are being dispatched, and the number
\* of tool messages appended after it.
AbsPendingIndex(conv) ==
    CHOOSE i \in 1..Len(conv) :
        /\ ~IsDict(conv[i]) /\ conv[i].cls = "ChatCompletionMessage"
        /\ \A j \in (i + 1)..Len(conv) : conv[j].role = "tool"

\* respond(priorHistory, userMessage) is called.
AbsStart(t) ==
    /\ AbsState(t) = "NOT_STARTED"
    /\ AbsState(t)' = "AWAITING_MODEL"
    /\ Len(AbsConversation(t)') = Len(chat_history'[t]) + 2
    /\ AbsConversation(t)'[1].role = "system"
    /\ AbsConversation(t)'[Len(AbsConversation(t)')]
          = [role |-> "user", content |-> chat_message'[t]]

\* Rule 1, tool calls requested: the assistant message is appended.
AbsToolCallsRequested(t) ==
    /\ AbsState(t) = "AWAITING_MODEL"
    /\ AbsState(t)' = "DISPATCHING_TOOLS"
    /\ sent'[t] = Append(sent[t], AbsConversation(t))
    /\ \E am \in {choice'[t].message} :
          AbsConversation(t)' = Append(AbsConversation(t), am)

\* Rule 1, otherwise: the final text is recorded.
AbsFinalAnswer(t) ==
    /\ AbsState(t) = "AWAITING_MODEL"
    /\ AbsState(t)' = "DONE"
    /\ sent'[t] = Append(sent[t], AbsConversation(t))
    /\ AbsConversation(t)' = AbsConversation(t)
    /\ AbsFinalText(t)' = choice'[t].message.content

\* ModelInvocationError: fatal for the turn.
AbsModelInvocationError(t) ==
    /\ AbsState(t) = "AWAITING_MODEL"
    /\ AbsState(t)' = "FAILED"
    /\ model_failed'[t]
    /\ AbsConversation(t)' = AbsConversation(t)

\* Rule 2: the next request is executed and one tool-role message with its id is
\* appended, whatever the outcome of the execution.
AbsDispatchOne(t) ==
    /\ AbsState(t) = "DISPATCHING_TOOLS"
    /\ AbsState(t)' = "DISPATCHING_TOOLS"
    /\ LET conv == AbsConversation(t)
           at == AbsPendingIndex(conv)
           k == Len(conv) - at
       IN /\ k < Len(conv[at].tool_calls)
          /\ Len(AbsConversation(t)') = Len(conv) + 1
          /\ SubSeq(AbsConversation(t)', 1, Len(conv)) = conv
          /\ AbsConversation(t)'[Len(conv) + 1].role = "tool"
          /\ AbsConversation(t)'[Len(conv) + 1].tool_call_id
                = conv[at].tool_calls[k + 1].id
          /\ dispatched'[t] = Append(dispatched[t], conv[at].tool_calls[k + 1].id)

\* Rule 2, after all are appended: back to AWAITING_MODEL.
AbsAllDispatched(t) ==
    /\ AbsState(t) = "DISPATCHING_TOOLS"
    /\ AbsState(t)' = "AWAITING_MODEL"
    /\ LET conv == AbsConversation(t)
           at == AbsPendingIndex(conv)
       IN Len(conv) - at = Len(conv[at].tool_calls)
    /\ AbsConversation(t)' = AbsConversation(t)

AbsNext(t) ==
    \/ AbsStart(t)
    \/ AbsToolCallsRequested(t)
    \/ AbsFinalAnswer(t)
    \/ AbsModelInvocationError(t)
    \/ AbsDispatchOne(t)
    \/ AbsAllDispatched(t)

AbsUnchanged(t) ==
    /\ AbsState(t)' = AbsState(t)
    /\ AbsConversation(t)' = AbsConversation(t)
    /\ AbsFinalText(t)' = AbsFinalText(t)
    /\ sent'[t] = sent[t]
    /\ dispatched'[t] = dispatched[t]

\* C15: every step of Me.chat is a step of the three-state machine of the
\* specification (on a history of well-formed messages): the same model
\* invocations on the same message lists, the same tool executions, the same
\* returned text.
\* Fails: a tool call that raises takes Me.chat from DISPATCHING_TOOLS to a
\* failed turn, a transition the machine does not have.
C15_RefinesSpecMachine ==
    [][\A t \in Turns :
          raised'[t] # "KeyError" => (AbsNext(t) \/ AbsUnchanged(t))]_vars

----------------------------------------------------------------------------
\* b is a extended by one assistant response with text reply and by one
\* tool-role message per tool call of that response, in order.
ExtendsByRound(a, b, reply) ==
    /\ Len(b) > Len(a)
    /\ SubSeq(b, 1, Len(a)) = a
    /\ LET am == b[Len(a) + 1]
       IN /\ ~IsDict(am) /\ am.cls = "ChatCompletionMessage"
          /\ am.content = reply
          /\ Len(b) = Len(a) + 1 + Len(am.tool_calls)
          /\ \A i \in 1..Len(am.tool_calls) :
                /\ b[Len(a) + 1 + i].role = "tool"
                /\ b[Len(a) + 1 + i].tool_call_id = am.tool_calls[i].id

\* C16: the message list of model invocation k+1 is the list of invocation k
\* extended by the assistant message of response k and its tool-role messages,
\* and the list the turn holds now starts with the list of its last invocation:
\* nothing is removed, reordered or rewritten.
C16_AppendOnly ==
    \A t \in Turns :
        /\ \A k \in 1..(Len(sent[t]) - 1) :
              ExtendsByRound(sent[t][k], sent[t][k + 1], Reply(k))
        /\ sent[t] # <<>> =>
              LET last == sent[t][Len(sent[t])]
              IN /\ Len(messages[t]) >= Len(last)
                 /\ SubSeq(messages[t], 1, Len(last)) = last
                 /\ (pc[t] = "call_model" /\ ~model_failed[t])
                       => ExtendsByRound(last, messages[t], Reply(Len(sent[t])))

\* Reached: a third model invocation, after two rounds of one tool call each.
C16_Witness ==
    \E t \in Turns :
        /\ Len(sent[t]) = 3
        /\ Len(sent[t][2]) = Len(sent[t][1]) + 2
        /\ Len(sent[t][3]) = Len(sent[t][2]) + 2

----------------------------------------------------------------------------
\* The messages of msgs that stand for the history: one per message of history
\* in the same order, after the system message; a dict as a message of its role
\* and content alone, any other message as it is.
CarriesHistory(msgs, history) ==
    /\ Len(msgs) >= Len(history) + 2
    /\ \A i \in 1..Len(history) :
          LET given == history[i]
              passed == msgs[i + 1]
          IN IF IsDict(given)
             THEN /\ IsDict(passed)
                  /\ DOMAIN passed = {"role", "content"}
                  /\ passed.role = given.role
                  /\ passed.content = given.content
             ELSE passed = given

\* C17: the history list of the caller is the one it passed in from the entry of
\* chat to the end of the turn, returning or failing: no step of the turn changes
\* its length or its messages; and every model invocation of the turn carries the
\* history as new messages of role and content for the dicts and as the same
\* messages for the others, in the order of the history.
C17_HistoryUntouched ==
    [][\A t \in Turns :
          /\ IF pc[t] = "idle"
             THEN chat_history'[t] = chat_history[t] \/ chat_history'[t] \in HistoryInputs
             ELSE chat_history'[t] = chat_history[t]
          /\ \A k \in 1..Len(sent'[t]) :
                CarriesHistory(sent'[t][k], chat_history'[t])]_vars

\* Reached: a turn that ended, by its return or by an exception, after two model
\* invocations on a history of three messages, one of which is a dict with a
\* further key and one of which is not a dict.
C17_Witness ==
    \E t \in Turns :
        /\ Len(chat_history[t]) = 3
        /\ \E i \in 1..3 : "metadata" \in DOMAIN chat_history[t][i]
        /\ \E i \in 1..3 : ~IsDict(chat_history[t][i])
        /\ Len(sent[t]) = 2
        /\ pc[t] \in {"done", "raised"}

----------------------------------------------------------------------------
\* C18: in a turn that returns, every requested tool call of a catalog name has
\* sent one notification and every other tool call none; the notifications of a
\* turn are in the order of its tool calls; and the notification of a catalog
\* call is sent by the time its tool-role message exists, so before the next
\* model invocation.
\* Fails: the name push is no catalog tool, yet its call sends a notification.
C18_NotificationsMatchCatalogCalls ==
    \A t \in Turns :
        /\ \A a, b \in 1..Len(NotifiedBy(t)) :
              a < b => NotifiedBy(t)[a].id < NotifiedBy(t)[b].id
        /\ pc[t] = "handle_tool_call" =>
              \A i \in 1..Len(results[t]) :
                  LET tool_call == choice[t].message.tool_calls[i]
                  IN Declared(tool_call.function.name)
                        => Len(NotifiedFor(t, tool_call.id)) = 1
        /\ pc[t] = "done" =>
              \A r \in RoundIndexes(t) :
                  \A i \in 1..Len(messages[t][r].tool_calls) :
                      LET tool_call == messages[t][r].tool_calls[i]
                      IN Len(NotifiedFor(t, tool_call.id))
                            = IF Declared(tool_call.function.name) THEN 1 ELSE 0

====
